---- MODULE Spec2Model ----
(***************************************************************************)
(* Overpass-Forge: the query compiler pipeline of overpassforge.           *)
(*                                                                         *)
(* build(statement) deep-copies the caller's statement graph and runs four *)
(* depth-first traversals over the copy: CycleDetector,                    *)
(* DependencyRetriever, DependencySimplifier and Compiler.  The model      *)
(* keeps every statement object in one heap (the caller's objects and the  *)
(* objects made by copy.deepcopy), and runs each traversal one hook call   *)
(* at a time with an explicit call stack.                                  *)
(*                                                                         *)
(* Text is a sequence of tokens; a token keeps the statement that emitted  *)
(* it (n) and, for a reference or an assignment, the statement referred to *)
(* (x) and the variable name used (s).                                     *)
(***************************************************************************)
EXTENDS Integers, Sequences, FiniteSets, TLC

(* ------------------------------------------------------------------ *)
(* Bounds                                                             *)
(* ------------------------------------------------------------------ *)
MaxNodes == 3     \* statement objects in the caller's graph
MaxOps == 2       \* operands of one Union / Intersect / RawStatement
MaxOut == 2       \* out() calls on one statement
MaxBuilds == 3    \* build() calls in one behaviour of SpecRepeat

NULL == 0
CallerIds == 1..MaxNodes
CloneIds == (MaxNodes + 1)..(2 * MaxNodes)
Ids == 1..(2 * MaxNodes)

(* ------------------------------------------------------------------ *)
(* Node model                                                         *)
(* ------------------------------------------------------------------ *)
NoLabel == "None"

Free == [kind |-> "free", filters |-> <<>>, ops |-> <<>>, label |-> NoLabel,
         outs |-> <<>>, outph |-> FALSE, coords |-> FALSE]

\* filters.py: a value filter (Tag, Ids, BoundingBox, ...) has no dependency;
\* tag is the identity of its text.
ValueFilter(tag) == [fk |-> "value", tag |-> tag, stmts |-> <<>>, coords |-> FALSE]
Intersect(stmts) == [fk |-> "intersect", tag |-> 0, stmts |-> stmts, coords |-> FALSE]
Area(a) == [fk |-> "area", tag |-> 0, stmts |-> <<a>>, coords |-> FALSE]
Pivot(a) == [fk |-> "pivot", tag |-> 0, stmts |-> <<a>>, coords |-> FALSE]
Around(stmts, coords) == [fk |-> "around", tag |-> 0, stmts |-> stmts, coords |-> coords]

\* Elements subclasses, by _type_specifier
ElementKinds == {"nwr", "node", "way", "rel", "area"}
RecurseKinds == {"recurse"}

IsElements(rec) == rec.kind \in ElementKinds
\* isinstance(statement, Set): every statement class but RawStatement
IsSet(rec) == rec.kind \notin {"raw", "free"}

RECURSIVE Flatten(_)
Flatten(ss) == IF ss = <<>> THEN <<>> ELSE Head(ss) \o Flatten(Tail(ss))

FilterDependencies(f) == f.stmts

StmtDependencies(rec) ==
    IF IsElements(rec)
    THEN Flatten([i \in 1..Len(rec.filters) |-> FilterDependencies(rec.filters[i])])
    ELSE rec.ops

Range(s) == {s[i] : i \in 1..Len(s)}

RECURSIVE ReachFrom(_, _, _)
ReachFrom(h, todo, seen) ==
    IF todo = {} THEN seen
    ELSE LET n == CHOOSE m \in todo : TRUE
             new == Range(StmtDependencies(h[n])) \ (seen \cup {n})
         IN ReachFrom(h, (todo \ {n}) \cup new, seen \cup {n})

Reach(h, r) == ReachFrom(h, {r}, {})

\* n lies on a dependency cycle: some dependency of n reaches n
OnCycle(h, n) == \E d \in Range(StmtDependencies(h[n])) : n \in Reach(h, d)
Acyclic(h, r) == \A n \in Reach(h, r) : ~OnCycle(h, n)

(* ------------------------------------------------------------------ *)
(* copy.deepcopy(statement)                                           *)
(* ------------------------------------------------------------------ *)
Shift(s) == [i \in 1..Len(s) |-> s[i] + MaxNodes]
CopyFilter(f) == [f EXCEPT !.stmts = Shift(f.stmts)]
CopyStmt(rec) == [rec EXCEPT !.filters = [i \in 1..Len(rec.filters) |-> CopyFilter(rec.filters[i])],
                             !.ops = Shift(rec.ops)]

DeepCopyAliased(h, r) == [heap |-> h, root |-> r]

DeepCopy(h, r) ==
    LET live == Reach(h, r)
    IN [heap |-> [n \in Ids |-> IF n \in CloneIds
                                THEN IF (n - MaxNodes) \in live
                                     THEN CopyStmt(h[n - MaxNodes]) ELSE Free
                                ELSE h[n]],
        root |-> r + MaxNodes]

(* ------------------------------------------------------------------ *)
(* State                                                              *)
(* ------------------------------------------------------------------ *)
VARIABLES
    heap,       \* every statement object: the caller's (CallerIds) and the copies
    callroot,   \* the statement the caller passed to build()
    root,       \* build's local `statement` after copy.deepcopy
    pass,       \* position of build(): idle, cycle, deps, simplify, compile, done, failed
    stack,      \* call stack of traverse(): frames [node, deps, i]
    visited,    \* traverse_statement's `visited`
    visiting,   \* CycleDetector.visiting
    deps,       \* DependencyRetriever.deps
    var_names,  \* VariableManager._var_names
    next_id,    \* VariableManager._next_id
    sequence,   \* Compiler.sequence
    err,        \* the exception that left build(), or "none"
    errstmt,    \* the `statement` attribute of that exception, or NULL
    built,      \* what earlier build() calls returned, by caller statement
    nbuilds,    \* build() / add_statement() calls made so far
    accept_pre, \* statement._accept_pre calls of the running traversal, counted by statement
    accept_post \* statement._accept_post calls of the running traversal, in call order

vars == <<heap, callroot, root, pass, stack, visited, visiting, deps,
          var_names, next_id, sequence, err, errstmt, built, nbuilds,
          accept_pre, accept_post>>

EmptyMap == [n \in {} |-> 0]

(* ------------------------------------------------------------------ *)
(* VariableManager                                                    *)
(* ------------------------------------------------------------------ *)
SetName(k) == "set_" \o ToString(k)

NamesInUse(vn) == {vn[n] : n \in DOMAIN vn}

is_named(vn, n) == n \in DOMAIN vn

\* VariableManager.get: the name, or None
NoName == "None"
get(vn, n) == IF n \in DOMAIN vn THEN vn[n] ELSE NoName

\* an allocator that takes the label whether or not the name is in use
ChosenNameLabelFirst(vn, nid, label) ==
    IF label # NoLabel THEN label ELSE SetName(nid)

\* VariableManager.add_statement on a statement that is not named yet
ChosenName(vn, nid, label) ==
    IF label # NoLabel /\ label \notin NamesInUse(vn) THEN label ELSE SetName(nid)

add_statementAgain(vn, nid, h, n) ==
    [err |-> "none", stmt |-> NULL,
     var_names |-> [m \in DOMAIN vn \cup {n} |->
                       IF m = n THEN ChosenName(vn, nid, h[n].label) ELSE vn[m]],
     next_id |-> nid + 1]

add_statement(vn, nid, h, n) ==
    IF n \in DOMAIN vn
    THEN [err |-> "unexpected", stmt |-> n, var_names |-> vn, next_id |-> nid]
    ELSE [err |-> "none", stmt |-> NULL,
          var_names |-> vn @@ (n :> ChosenName(vn, nid, h[n].label)),
          next_id |-> nid + 1]

(* ------------------------------------------------------------------ *)
(* Rendering                                                          *)
(* ------------------------------------------------------------------ *)
Tok(t, n, x, s) == [t |-> t, n |-> n, x |-> x, s |-> s, o |-> {}]
OutTok(n, opts) == [t |-> "out", n |-> n, x |-> 0, s |-> "", o |-> opts]

Ok(text) == [err |-> "none", text |-> text]
Raise(kind) == [err |-> kind, text |-> <<>>]

\* ->.name; or ; at the end of a statement
Ending(n, out_var) ==
    IF out_var # NoName THEN <<Tok("assign", n, n, out_var)>> ELSE <<Tok("end", n, 0, ";")>>

\* names of the statements of a relational filter, in order: vars[stmt]
RECURSIVE NameRefs(_, _, _, _)
NameRefs(vn, n, t, stmts) ==
    IF stmts = <<>> THEN Ok(<<>>)
    ELSE IF ~is_named(vn, Head(stmts)) THEN Raise("keyerror")
    ELSE LET rest == NameRefs(vn, n, t, Tail(stmts))
         IN IF rest.err # "none" THEN rest
            ELSE Ok(<<Tok(t, n, Head(stmts), vn[Head(stmts)])>> \o rest.text)

\* an Around filter that renders whatever attributes it holds
FilterCompileLax(vn, n, f) ==
    CASE f.fk = "value" -> Ok(<<Tok("value", n, f.tag, "")>>)
      [] f.fk = "intersect" ->
            IF Len(f.stmts) = 0 THEN Raise("attribute")
            ELSE NameRefs(vn, n, "isect", f.stmts)
      [] f.fk = "area" -> NameRefs(vn, n, "area", f.stmts)
      [] f.fk = "pivot" -> NameRefs(vn, n, "pivot", f.stmts)
      [] f.fk = "around" ->
            IF Len(f.stmts) > 0 THEN NameRefs(vn, n, "around", f.stmts)
            ELSE Ok(<<Tok("around_at", n, 0, "")>>)

FilterCompile(vn, n, f) ==
    CASE f.fk = "value" -> Ok(<<Tok("value", n, f.tag, "")>>)
      [] f.fk = "intersect" ->
            IF Len(f.stmts) = 0 THEN Raise("attribute")
            ELSE NameRefs(vn, n, "isect", f.stmts)
      [] f.fk = "area" -> NameRefs(vn, n, "area", f.stmts)
      [] f.fk = "pivot" -> NameRefs(vn, n, "pivot", f.stmts)
      [] f.fk = "around" ->
            IF Len(f.stmts) > 0 /\ f.coords THEN Raise("attribute")
            ELSE IF Len(f.stmts) > 0 THEN NameRefs(vn, n, "around", f.stmts)
            ELSE IF f.coords THEN Ok(<<Tok("around_at", n, 0, "")>>)
            ELSE Raise("attribute")

RECURSIVE FiltersCompile(_, _, _)
FiltersCompile(vn, n, fs) ==
    IF fs = <<>> THEN Ok(<<>>)
    ELSE LET first == FilterCompile(vn, n, Head(fs))
         IN IF first.err # "none" THEN first
            ELSE LET rest == FiltersCompile(vn, n, Tail(fs))
                 IN IF rest.err # "none" THEN rest ELSE Ok(first.text \o rest.text)

RECURSIVE StmtCompile(_, _, _)
RECURSIVE OperandsCompile(_, _, _, _)

RECURSIVE OperandsCompileInline(_, _, _, _)

\* a get_or_compile that renders every operand in place
OperandsCompileInline(h, vn, n, ops) ==
    IF ops = <<>> THEN Ok(<<>>)
    ELSE LET first == StmtCompile(h, vn, Head(ops))
         IN IF first.err # "none" THEN first
            ELSE LET rest == OperandsCompileInline(h, vn, n, Tail(ops))
                 IN IF rest.err # "none" THEN rest ELSE Ok(first.text \o rest.text)

\* VariableManager.get_or_compile(stmt, ".{};") for each operand in turn
OperandsCompile(h, vn, n, ops) ==
    IF ops = <<>> THEN Ok(<<>>)
    ELSE LET o == Head(ops)
             first == IF is_named(vn, o) THEN Ok(<<Tok("use", n, o, vn[o])>>)
                      ELSE StmtCompile(h, vn, o)
         IN IF first.err # "none" THEN first
            ELSE LET rest == OperandsCompile(h, vn, n, Tail(ops))
                 IN IF rest.err # "none" THEN rest ELSE Ok(first.text \o rest.text)

ElementsCompile(h, vn, n, out_var) ==
    LET fs == FiltersCompile(vn, n, h[n].filters)
    IN IF fs.err # "none" THEN fs
       ELSE Ok(<<Tok("type", n, 0, h[n].kind)>> \o fs.text \o Ending(n, out_var))

UnionCompile(h, vn, n, out_var) ==
    LET subs == OperandsCompile(h, vn, n, h[n].ops)
    IN IF subs.err # "none" THEN subs
       ELSE Ok(<<Tok("open", n, 0, "(")>> \o subs.text \o <<Tok("close", n, 0, ")")>>
               \o Ending(n, out_var))

DifferenceCompile(h, vn, n, out_var) ==
    LET a == OperandsCompile(h, vn, n, <<h[n].ops[1]>>)
        b == OperandsCompile(h, vn, n, <<h[n].ops[2]>>)
    IN IF a.err # "none" THEN a
       ELSE IF b.err # "none" THEN b
       ELSE Ok(<<Tok("open", n, 0, "(")>> \o a.text \o <<Tok("minus", n, 0, "-")>> \o b.text
               \o <<Tok("close", n, 0, ")")>> \o Ending(n, out_var))

\* a RawStatement that renders without looking at the names
RawCompileUnchecked(h, vn, n, out_var) ==
    Ok(<<Tok("rawtext", n, 0, "")>>
       \o [i \in 1..Len(h[n].ops) |-> Tok("raw", n, h[n].ops[i], get(vn, h[n].ops[i]))]
       \o (IF out_var # NoName THEN <<Tok("assign", n, n, out_var)>>
           ELSE <<Tok("default", n, 0, "_")>>))

RawCompile(h, vn, n, out_var) ==
    IF \E i \in 1..Len(h[n].ops) : ~is_named(vn, h[n].ops[i]) THEN Raise("unexpected")
    ELSE IF ~h[n].outph /\ out_var # NoName THEN Raise("unexpected")
    ELSE Ok(<<Tok("rawtext", n, 0, "")>>
            \o [i \in 1..Len(h[n].ops) |-> Tok("raw", n, h[n].ops[i], vn[h[n].ops[i]])]
            \o (IF ~h[n].outph THEN <<>>
                ELSE IF out_var # NoName THEN <<Tok("assign", n, n, out_var)>>
                ELSE <<Tok("default", n, 0, "_")>>))

RecurseCompile(h, vn, n, out_var) ==
    LET in == h[n].ops[1]
    IN Ok((IF is_named(vn, in) THEN <<Tok("input", n, in, vn[in])>> ELSE <<>>)
          \o <<Tok("symbol", n, 0, ">")>> \o Ending(n, out_var))

OverlappingAreasCompile(h, vn, n, out_var) ==
    IF Len(h[n].ops) > 0 /\ h[n].coords THEN Raise("attribute")
    ELSE IF Len(h[n].ops) > 0
    THEN LET in == h[n].ops[1]
         IN Ok((IF is_named(vn, in) THEN <<Tok("input", n, in, vn[in])>> ELSE <<>>)
               \o <<Tok("symbol", n, 0, "is_in")>> \o Ending(n, out_var))
    ELSE IF h[n].coords
    THEN Ok(<<Tok("symbol", n, 0, "is_in"), Tok("latlon", n, 0, "")>> \o Ending(n, out_var))
    ELSE Raise("attribute")

\* statement._compile_statement(vars, out_var)
CompileStatement(h, vn, n, out_var) ==
    CASE IsElements(h[n]) -> ElementsCompile(h, vn, n, out_var)
      [] h[n].kind = "union" -> UnionCompile(h, vn, n, out_var)
      [] h[n].kind = "difference" -> DifferenceCompile(h, vn, n, out_var)
      [] h[n].kind = "raw" -> RawCompile(h, vn, n, out_var)
      [] h[n].kind = "recurse" -> RecurseCompile(h, vn, n, out_var)
      [] h[n].kind = "is_in" -> OverlappingAreasCompile(h, vn, n, out_var)

\* statement._compile(vars): the statement's text, stored into its own variable
\* when it has one
StmtCompile(h, vn, n) == CompileStatement(h, vn, n, get(vn, n))

\* statement._output(vars): one line per out() call, in call order
OutputLines(h, vn, n) ==
    [i \in 1..Len(h[n].outs) |->
        (IF is_named(vn, n) THEN <<Tok("outof", n, n, vn[n])>> ELSE <<>>)
        \o <<OutTok(n, h[n].outs[i])>>]

(* ------------------------------------------------------------------ *)
(* Visitors                                                           *)
(* ------------------------------------------------------------------ *)

\* a detector that takes an open statement for a closed one
CyclePreHookNoRaise(vis, n) ==
    IF n \notin DOMAIN vis THEN [err |-> "none", stmt |-> NULL, visiting |-> vis @@ (n :> TRUE)]
    ELSE [err |-> "none", stmt |-> NULL, visiting |-> vis]

\* CycleDetector.visit_statement_pre: unseen -> open, open -> raise, closed -> no-op
CyclePreHook(vis, n) ==
    IF n \notin DOMAIN vis THEN [err |-> "none", stmt |-> NULL, visiting |-> vis @@ (n :> TRUE)]
    ELSE IF vis[n] THEN [err |-> "circular", stmt |-> n, visiting |-> vis]
    ELSE [err |-> "none", stmt |-> NULL, visiting |-> vis]

\* a detector that never closes a statement
CyclePostHookStaysOpen(vis, n) == vis

\* CycleDetector.visit_statement_post
CyclePostHook(vis, n) == [vis EXCEPT ![n] = FALSE]

Dependency(rc, ni) == [ref_count |-> rc, no_inline |-> ni]

\* for stmt in ...: if stmt not in self.deps: self.deps[stmt] = Dependency(stmt, 0, True)
Seed(d, stmts) ==
    d @@ [m \in Range(stmts) \ DOMAIN d |-> Dependency(0, TRUE)]

\* a retriever that counts only the first arrival at a statement
DepsPreHookFirstOnly(d, h, n) ==
    LET counted == IF n \notin DOMAIN d THEN d @@ (n :> Dependency(1, FALSE))
                   ELSE [d EXCEPT ![n].ref_count = IF @ = 0 THEN 1 ELSE @]
    IN IF h[n].kind \in {"raw", "is_in"} THEN Seed(counted, StmtDependencies(h[n]))
       ELSE IF IsSet(h[n])
       THEN Seed(counted, Flatten([i \in 1..Len(h[n].filters) |->
                                      FilterDependencies(h[n].filters[i])]))
       ELSE counted

\* DependencyRetriever.visit_statement_pre
DepsPreHook(d, h, n) ==
    LET counted == IF n \notin DOMAIN d THEN d @@ (n :> Dependency(1, FALSE))
                   ELSE [d EXCEPT ![n].ref_count = @ + 1]
    IN IF h[n].kind \in {"raw", "is_in"} THEN Seed(counted, StmtDependencies(h[n]))
       ELSE IF IsSet(h[n])
       THEN Seed(counted, Flatten([i \in 1..Len(h[n].filters) |->
                                      FilterDependencies(h[n].filters[i])]))
       ELSE counted

\* inlining that ignores the reference count, and no inlining at all
can_inlineAnyCount(d, h, n) ==
    /\ ~d[n].no_inline
    /\ (IsSet(h[n]) => Len(h[n].outs) = 0)

can_inlineNever(d, h, n) == FALSE

\* Dependency.can_inline
can_inline(d, h, n) ==
    /\ ~d[n].no_inline
    /\ d[n].ref_count <= 1
    /\ (IsSet(h[n]) => Len(h[n].outs) = 0)

\* a simplifier that finds no operand single
is_singleNever(d, stmt) == FALSE

\* a simplifier that also takes an operand with two references for single
is_singleOrShared(d, stmt) == d[stmt].ref_count \in {1, 2}

\* is_single = lambda stmt: self.deps[stmt].ref_count == 1
is_single(d, stmt) == d[stmt].ref_count = 1

\* _utils.partition
RECURSIVE SelectSeqBy(_, _, _)
SelectSeqBy(d, stmts, want) ==
    IF stmts = <<>> THEN <<>>
    ELSE (IF is_single(d, Head(stmts)) = want THEN <<Head(stmts)>> ELSE <<>>)
         \o SelectSeqBy(d, Tail(stmts), want)

partition(d, stmts) ==
    [singles |-> SelectSeqBy(d, stmts, TRUE), locked |-> SelectSeqBy(d, stmts, FALSE)]

\* isinstance(stmt, Set) and stmt.__class__ is statement.__class__
SameClassAnyType(h, stmt, owner) == IsSet(h[stmt]) /\ IsElements(h[stmt])

SameClass(h, stmt, owner) == IsSet(h[stmt]) /\ h[stmt].kind = h[owner].kind

\* the body of `for stmt in singles`: the filters to splice and the grown locked list
RECURSIVE SpliceSingles(_, _, _, _)
SpliceSingles(h, owner, singles, locked) ==
    IF singles = <<>> THEN [spliced |-> <<>>, locked |-> locked]
    ELSE LET stmt == Head(singles)
         IN IF SameClass(h, stmt, owner)
            THEN LET rest == SpliceSingles(h, owner, Tail(singles), locked)
                 IN [spliced |-> h[stmt].filters \o rest.spliced, locked |-> rest.locked]
            ELSE SpliceSingles(h, owner, Tail(singles), Append(locked, stmt))

\* a simplifier that puts the reduced Intersect filter in front of the spliced filters
RECURSIVE NewFiltersLockedFirst(_, _, _, _)
NewFiltersLockedFirst(h, d, owner, fs) ==
    IF fs = <<>> THEN <<>>
    ELSE LET filt == Head(fs)
         IN IF filt.fk # "intersect"
            THEN <<filt>> \o NewFiltersLockedFirst(h, d, owner, Tail(fs))
            ELSE LET parts == partition(d, filt.stmts)
                     res == SpliceSingles(h, owner, parts.singles, parts.locked)
                 IN (IF Len(res.locked) > 0 THEN <<Intersect(res.locked)>> ELSE <<>>)
                    \o res.spliced
                    \o NewFiltersLockedFirst(h, d, owner, Tail(fs))

\* the body of `for filt in statement._filters`
RECURSIVE NewFilters(_, _, _, _)
NewFilters(h, d, owner, fs) ==
    IF fs = <<>> THEN <<>>
    ELSE LET filt == Head(fs)
         IN IF filt.fk # "intersect"
            THEN <<filt>> \o NewFilters(h, d, owner, Tail(fs))
            ELSE LET parts == partition(d, filt.stmts)
                     res == SpliceSingles(h, owner, parts.singles, parts.locked)
                 IN res.spliced
                    \o (IF Len(res.locked) > 0 THEN <<Intersect(res.locked)>> ELSE <<>>)
                    \o NewFilters(h, d, owner, Tail(fs))

\* DependencySimplifier.visit_statement_post
SimplifyPostHook(h, d, n) ==
    IF ~IsSet(h[n]) THEN h
    ELSE [h EXCEPT ![n].filters = NewFilters(h, d, n, h[n].filters)]

\* a Compiler that takes no statement for the root
is_rootNever(n, r) == FALSE

\* statement == self.root
is_root(n, r) == n = r

\* a Compiler that puts new lines in front of the ones it has
sequence_prepend(seq, lines) == lines \o seq

\* self.sequence.append(...), for the lines of one statement in the order they are made
sequence_append(seq, lines) == seq \o lines

\* Compiler.visit_statement_post
CompilePostHook(h, d, r, vn, nid, seq, n) ==
    LET isroot == is_root(n, r)
        named == IF ~isroot /\ ~can_inline(d, h, n)
                 THEN add_statement(vn, nid, h, n)
                 ELSE [err |-> "none", stmt |-> NULL, var_names |-> vn, next_id |-> nid]
        emits == isroot \/ ~can_inline(d, h, n)
        compiled == IF named.err = "none" /\ emits
                    THEN StmtCompile(h, named.var_names, n) ELSE Ok(<<>>)
        outs == IF IsSet(h[n]) /\ Len(h[n].outs) > 0
                THEN OutputLines(h, named.var_names, n) ELSE <<>>
        failure == IF named.err # "none" THEN named.err ELSE compiled.err
    IN IF failure # "none"
       THEN [err |-> failure, stmt |-> named.stmt,
             var_names |-> named.var_names, next_id |-> named.next_id,
             sequence |-> seq]
       ELSE [err |-> "none", stmt |-> NULL,
             var_names |-> named.var_names, next_id |-> named.next_id,
             sequence |-> sequence_append(seq, (IF emits THEN <<compiled.text>> ELSE <<>>)
                                                     \o outs)]

(* ------------------------------------------------------------------ *)
(* traverse_statement                                                 *)
(* ------------------------------------------------------------------ *)
Frame(n, ds) == [node |-> n, deps |-> ds, i |-> 1]

\* traverse_statement(statement, visitor): a fresh `visited`, then traverse(statement)
Entry(r) == <<Frame(NULL, <<r>>)>>

Top == stack[Len(stack)]
HasCall == stack # <<>> /\ Top.i <= Len(Top.deps)
AtPost == stack # <<>> /\ Top.i > Len(Top.deps) /\ Top.node # NULL
AtEnd == stack # <<>> /\ Top.i > Len(Top.deps) /\ Top.node = NULL
Callee == Top.deps[Top.i]

Advanced == [stack EXCEPT ![Len(stack)].i = @ + 1]
Popped == SubSeq(stack, 1, Len(stack) - 1)

\* a traverse() that walks the dependencies of a statement on every arrival
DescendAlways(h) ==
    /\ stack' = Append(Advanced, Frame(Callee, StmtDependencies(h[Callee])))
    /\ visited' = visited \cup {Callee}

\* traverse(dep), after the pre hook returned: return at once when dep is in
\* visited, else add it and start on its dependencies
Descend(h) ==
    IF Callee \in visited
    THEN /\ stack' = Advanced
         /\ visited' = visited
    ELSE /\ stack' = Append(Advanced, Frame(Callee, StmtDependencies(h[Callee])))
         /\ visited' = visited \cup {Callee}

\* statement._accept_pre(visitor) was called once more
Called(calls, n) ==
    IF n \in DOMAIN calls THEN [calls EXCEPT ![n] = @ + 1] ELSE calls @@ (n :> 1)

Fail(kind) ==
    /\ pass' = "failed"
    /\ err' = kind
    /\ stack' = <<>>

(* ------------------------------------------------------------------ *)
(* build()                                                            *)
(* ------------------------------------------------------------------ *)

\* statement = copy.deepcopy(statement); _traverse(statement, _CycleDetector())
Build(r) ==
    /\ pass = "idle"
    /\ nbuilds < MaxBuilds
    /\ heap[r].kind # "free"
    /\ LET copy == DeepCopy(heap, r)
       IN /\ heap' = copy.heap
          /\ root' = copy.root
          /\ stack' = Entry(copy.root)
    /\ callroot' = r
    /\ pass' = "cycle"
    /\ visited' = {}
    /\ visiting' = EmptyMap
    /\ nbuilds' = nbuilds + 1
    /\ UNCHANGED <<deps, var_names, next_id, sequence, err, errstmt, built>>
    /\ accept_pre' = EmptyMap
    /\ accept_post' = <<>>

CyclePre ==
    /\ pass = "cycle" /\ HasCall
    /\ LET res == CyclePreHook(visiting, Callee)
       IN /\ visiting' = res.visiting
          /\ IF res.err # "none"
             THEN Fail(res.err) /\ errstmt' = res.stmt /\ visited' = visited
             ELSE Descend(heap) /\ UNCHANGED <<pass, err, errstmt>>
    /\ UNCHANGED <<heap, callroot, root, deps, var_names, next_id, sequence, built, nbuilds>>
    /\ accept_pre' = Called(accept_pre, Callee)
    /\ UNCHANGED accept_post

CyclePost ==
    /\ pass = "cycle" /\ AtPost
    /\ visiting' = CyclePostHook(visiting, Top.node)
    /\ stack' = Popped
    /\ UNCHANGED <<heap, callroot, root, pass, visited, deps, var_names, next_id,
                   sequence, err, errstmt, built, nbuilds>>
    /\ accept_post' = Append(accept_post, Top.node)
    /\ UNCHANGED accept_pre

\* dependencies = _DependencyRetriever(); _traverse(statement, dependencies)
CycleEnd ==
    /\ pass = "cycle" /\ AtEnd
    /\ pass' = "deps"
    /\ stack' = Entry(root)
    /\ visited' = {}
    /\ deps' = EmptyMap
    /\ UNCHANGED <<heap, callroot, root, visiting, var_names, next_id, sequence, err, errstmt,
                   built, nbuilds>>
    /\ accept_pre' = EmptyMap
    /\ accept_post' = <<>>

DepsPre ==
    /\ pass = "deps" /\ HasCall
    /\ deps' = DepsPreHook(deps, heap, Callee)
    /\ Descend(heap)
    /\ UNCHANGED <<heap, callroot, root, pass, visiting, var_names, next_id, sequence,
                   err, errstmt, built, nbuilds>>
    /\ accept_pre' = Called(accept_pre, Callee)
    /\ UNCHANGED accept_post

DepsPost ==
    /\ pass = "deps" /\ AtPost
    /\ stack' = Popped
    /\ UNCHANGED <<heap, callroot, root, pass, visited, visiting, deps, var_names,
                   next_id, sequence, err, errstmt, built, nbuilds>>
    /\ accept_post' = Append(accept_post, Top.node)
    /\ UNCHANGED accept_pre

\* _traverse(statement, _DependencySimplifier(dependencies.deps))
DepsEnd ==
    /\ pass = "deps" /\ AtEnd
    /\ pass' = "simplify"
    /\ stack' = Entry(root)
    /\ visited' = {}
    /\ UNCHANGED <<heap, callroot, root, visiting, deps, var_names, next_id, sequence,
                   err, errstmt, built, nbuilds>>
    /\ accept_pre' = EmptyMap
    /\ accept_post' = <<>>

SimplifyPre ==
    /\ pass = "simplify" /\ HasCall
    /\ Descend(heap)
    /\ UNCHANGED <<heap, callroot, root, pass, visiting, deps, var_names, next_id,
                   sequence, err, errstmt, built, nbuilds>>
    /\ accept_pre' = Called(accept_pre, Callee)
    /\ UNCHANGED accept_post

SimplifyPost ==
    /\ pass = "simplify" /\ AtPost
    /\ heap' = SimplifyPostHook(heap, deps, Top.node)
    /\ stack' = Popped
    /\ UNCHANGED <<callroot, root, pass, visited, visiting, deps, var_names, next_id,
                   sequence, err, errstmt, built, nbuilds>>
    /\ accept_post' = Append(accept_post, Top.node)
    /\ UNCHANGED accept_pre

\* compiler = _Compiler(statement, dependencies.deps); _traverse(statement, compiler)
SimplifyEnd ==
    /\ pass = "simplify" /\ AtEnd
    /\ pass' = "compile"
    /\ stack' = Entry(root)
    /\ visited' = {}
    /\ var_names' = EmptyMap
    /\ next_id' = 0
    /\ sequence' = <<>>
    /\ UNCHANGED <<heap, callroot, root, visiting, deps, err, errstmt, built, nbuilds>>
    /\ accept_pre' = EmptyMap
    /\ accept_post' = <<>>

CompilePre ==
    /\ pass = "compile" /\ HasCall
    /\ Descend(heap)
    /\ UNCHANGED <<heap, callroot, root, pass, visiting, deps, var_names, next_id,
                   sequence, err, errstmt, built, nbuilds>>
    /\ accept_pre' = Called(accept_pre, Callee)
    /\ UNCHANGED accept_post

CompilePost ==
    /\ pass = "compile" /\ AtPost
    /\ LET res == CompilePostHook(heap, deps, root, var_names, next_id, sequence, Top.node)
       IN /\ var_names' = res.var_names
          /\ next_id' = res.next_id
          /\ sequence' = res.sequence
          /\ IF res.err # "none"
             THEN Fail(res.err) /\ errstmt' = res.stmt
             ELSE stack' = Popped /\ UNCHANGED <<pass, err, errstmt>>
    /\ UNCHANGED <<heap, callroot, root, visited, visiting, deps, built, nbuilds>>
    /\ accept_post' = Append(accept_post, Top.node)
    /\ UNCHANGED accept_pre

\* core_query = "\n".join(compiler.sequence); return core_query
CompileEnd ==
    /\ pass = "compile" /\ AtEnd
    /\ pass' = "done"
    /\ stack' = <<>>
    /\ UNCHANGED <<heap, callroot, root, visited, visiting, deps, var_names, next_id,
                   sequence, err, errstmt, built, nbuilds>>
    /\ UNCHANGED <<accept_pre, accept_post>>

(* ------------------------------------------------------------------ *)
(* The caller's graphs                                                *)
(* ------------------------------------------------------------------ *)

\* the option set of the k-th out() call on a statement
OutRequest(k) == CASE k = 1 -> {"body"} [] k = 2 -> {"geom", "skel"} [] OTHER -> {}
OutCalls(k) == [j \in 1..k |-> OutRequest(j)]

OpSeqs(T) == UNION {[1..k -> T] : k \in 1..MaxOps}

\* the relational filters of an Elements statement
Rels(T) == {<<>>} \cup {<<Intersect(s)>> : s \in OpSeqs(T)} \cup {<<Area(a)>> : a \in T}

Stmt(kind, filters, ops, outs, outph, coords) ==
    [kind |-> kind, filters |-> filters, ops |-> ops, label |-> NoLabel,
     outs |-> outs, outph |-> outph, coords |-> coords]

\* Nodes(...) / Ways(...): own value filters around the relational ones
ElementsStmts(i, T, kinds, maxout) ==
    {Stmt(k, <<ValueFilter(10 * i + 1)>> \o rel \o <<ValueFilter(10 * i + 2)>>,
          <<>>, OutCalls(c), FALSE, FALSE) :
        k \in kinds, rel \in Rels(T), c \in 0..maxout}

UnionStmts(T, maxout) ==
    {Stmt("union", <<>>, ops, OutCalls(c), FALSE, FALSE) : ops \in OpSeqs(T), c \in 0..maxout}

DifferenceStmts(T) ==
    {Stmt("difference", <<>>, ops, <<>>, FALSE, FALSE) : ops \in [1..2 -> T]}

RawStmts(T) ==
    {Stmt("raw", <<>>, ops, <<>>, ph, FALSE) : ops \in OpSeqs(T) \cup {<<>>}, ph \in BOOLEAN}

RecurseStmts(T) ==
    {Stmt("recurse", <<>>, ops, <<>>, FALSE, FALSE) : ops \in [1..1 -> T]}

OverlappingAreasStmts(T) ==
    {Stmt("is_in", <<>>, ops, <<>>, FALSE, FALSE) : ops \in [1..1 -> T]}
    \cup {Stmt("is_in", <<>>, <<>>, <<>>, FALSE, TRUE)}

\* element queries of two types and unions, with out() calls
SetShapes(i, T) == ElementsStmts(i, T, {"node", "way"}, MaxOut) \cup UnionStmts(T, MaxOut)

\* every statement class, without out() calls
KindShapes(i, T) ==
    ElementsStmts(i, T, {"node"}, 0) \cup UnionStmts(T, 0) \cup DifferenceStmts(T)
    \cup RawStmts(T) \cup RecurseStmts(T) \cup OverlappingAreasStmts(T)

\* element queries of one type and unions, without out() calls
PlainShapes(i, T) == ElementsStmts(i, T, {"node"}, 0) \cup UnionStmts(T, 0)

\* unions over any statements of the graph, themselves included
LoopShapes(i, T) ==
    {Stmt("union", <<>>, ops, <<>>, FALSE, FALSE) : ops \in OpSeqs(CallerIds) \cup {<<>>}}

Shapes(family, i, T) ==
    CASE family = "set" -> SetShapes(i, T)
      [] family = "kind" -> KindShapes(i, T)
      [] family = "plain" -> PlainShapes(i, T)
      [] family = "loop" -> LoopShapes(i, T)

\* statement i depends only on statements made before it (higher ids)
RECURSIVE GraphsFrom(_, _)
GraphsFrom(family, i) ==
    IF i > MaxNodes THEN {EmptyMap}
    ELSE {g @@ (i :> s) : g \in GraphsFrom(family, i + 1),
                          s \in Shapes(family, i, (i + 1)..MaxNodes)}

WithFree(g) == [n \in Ids |-> IF n \in DOMAIN g THEN g[n] ELSE Free]

\* the graphs of a family in which statement 1 reaches every statement
Graphs(family) ==
    {WithFree(g) : g \in {a \in GraphsFrom(family, 1) : Reach(a, 1) = CallerIds}}

Idle ==
    /\ callroot = NULL /\ root = NULL
    /\ pass = "idle"
    /\ stack = <<>>
    /\ visited = {}
    /\ visiting = EmptyMap
    /\ deps = EmptyMap
    /\ var_names = EmptyMap
    /\ next_id = 0
    /\ sequence = <<>>
    /\ err = "none" /\ errstmt = NULL
    /\ built = EmptyMap
    /\ nbuilds = 0
    /\ accept_pre = EmptyMap
    /\ accept_post = <<>>

Init ==
    /\ heap \in Graphs("set") \cup Graphs("kind") \cup Graphs("loop")
    /\ Idle

Next ==
    \/ Build(1)
    \/ CyclePre \/ CyclePost \/ CycleEnd
    \/ DepsPre \/ DepsPost \/ DepsEnd
    \/ SimplifyPre \/ SimplifyPost \/ SimplifyEnd
    \/ CompilePre \/ CompilePost \/ CompileEnd

Spec == Init /\ [][Next]_vars

(* ------------------------------------------------------------------ *)
(* Several build() calls on one caller graph                          *)
(* ------------------------------------------------------------------ *)

\* what the build() call in progress gave its caller
Outcome == [err |-> err, text |-> IF pass = "done" THEN sequence ELSE <<>>]

BuildAny == \E r \in CallerIds : Build(r)

\* build() has returned or raised: its locals are dropped, the caller goes on
Return ==
    /\ pass \in {"done", "failed"}
    /\ nbuilds < MaxBuilds
    /\ built' = IF callroot \in DOMAIN built THEN built ELSE built @@ (callroot :> Outcome)
    /\ pass' = "idle"
    /\ callroot' = NULL /\ root' = NULL
    /\ stack' = <<>>
    /\ visited' = {}
    /\ visiting' = EmptyMap
    /\ deps' = EmptyMap
    /\ var_names' = EmptyMap
    /\ next_id' = 0
    /\ sequence' = <<>>
    /\ err' = "none" /\ errstmt' = NULL
    /\ UNCHANGED <<heap, nbuilds>>
    /\ accept_pre' = EmptyMap
    /\ accept_post' = <<>>

InitRepeat ==
    /\ heap \in Graphs("plain")
    /\ Idle

NextRepeat ==
    \/ BuildAny
    \/ CyclePre \/ CyclePost \/ CycleEnd
    \/ DepsPre \/ DepsPost \/ DepsEnd
    \/ SimplifyPre \/ SimplifyPost \/ SimplifyEnd
    \/ CompilePre \/ CompilePost \/ CompileEnd
    \/ Return

SpecRepeat == InitRepeat /\ [][NextRepeat]_vars

(* ------------------------------------------------------------------ *)
(* The VariableManager on its own                                     *)
(* ------------------------------------------------------------------ *)
Labels == {NoLabel, "a"} \cup {SetName(k) : k \in 0..(MaxNodes - 1)}

LabelledGraphs ==
    {WithFree([n \in CallerIds |->
                 [Stmt("node", <<ValueFilter(10 * n + 1)>>, <<>>, <<>>, FALSE, FALSE)
                    EXCEPT !.label = l[n]]]) : l \in [CallerIds -> Labels]}

\* vars.add_statement(stmt) on any statement, named already or not
Register(n) ==
    /\ pass = "alloc"
    /\ LET res == add_statement(var_names, next_id, heap, n)
       IN /\ var_names' = res.var_names
          /\ next_id' = res.next_id
          /\ err' = res.err
          /\ errstmt' = res.stmt
    /\ UNCHANGED <<heap, callroot, root, pass, stack, visited, visiting, deps, sequence,
                   built, nbuilds>>
    /\ UNCHANGED <<accept_pre, accept_post>>

\* a RawStatement over up to MaxOps element queries, with and without {:out_var}
RawGraphs ==
    {WithFree([n \in CallerIds |->
                 IF n = 1 THEN raw
                 ELSE Stmt("node", <<ValueFilter(10 * n + 1)>>, <<>>, <<>>, FALSE, FALSE)]) :
        raw \in RawStmts(CallerIds \ {1})}

\* stmt._compile(vars) on any statement, with the names vars holds at that moment
Render(n) ==
    /\ pass = "alloc"
    /\ LET res == StmtCompile(heap, var_names, n)
       IN /\ err' = res.err
          /\ errstmt' = NULL
          /\ sequence' = IF res.err = "none" THEN <<res.text>> ELSE <<>>
    /\ UNCHANGED <<heap, callroot, root, pass, stack, visited, visiting, deps, var_names,
                   next_id, built, nbuilds>>
    /\ UNCHANGED <<accept_pre, accept_post>>

InitAlloc ==
    /\ heap \in LabelledGraphs \cup RawGraphs
    /\ callroot = NULL /\ root = NULL
    /\ pass = "alloc"
    /\ stack = <<>>
    /\ visited = {}
    /\ visiting = EmptyMap
    /\ deps = EmptyMap
    /\ var_names = EmptyMap
    /\ next_id = 0
    /\ sequence = <<>>
    /\ err = "none" /\ errstmt = NULL
    /\ built = EmptyMap
    /\ nbuilds = 0
    /\ accept_pre = EmptyMap
    /\ accept_post = <<>>

NextAlloc == \E n \in CallerIds : Register(n) \/ Render(n)

SpecAlloc == InitAlloc /\ [][NextAlloc]_vars

(* ------------------------------------------------------------------ *)
(* Element queries in every form of the constructor                   *)
(* ------------------------------------------------------------------ *)
\* Nodes(input_set=x, ...): the Intersect filter comes first;
\* Nodes(filters=[...], input_set=x, ...): it comes after the given filters
ChainForms(i, T) ==
    {<<ValueFilter(10 * i + 1), ValueFilter(10 * i + 2)>>}
    \cup {<<Intersect(<<x>>), ValueFilter(10 * i + 1), ValueFilter(10 * i + 2)>> : x \in T}
    \cup {<<ValueFilter(10 * i + 1), Intersect(<<x>>), ValueFilter(10 * i + 2)>> : x \in T}

\* Intersect(), Around(...) with a set, with coordinates, with both, with neither,
\* and Pivot(x)
AttrForms(i, T) ==
    {<<ValueFilter(10 * i + 1), f>> :
        f \in {Intersect(<<>>), Around(<<>>, FALSE), Around(<<>>, TRUE)}
              \cup {Around(<<x>>, c) : x \in T, c \in BOOLEAN}
              \cup {Pivot(x) : x \in T}}

FormLabels == {NoLabel, "a", SetName(0)}

\* the statement build() is called on may have a label and out() calls
FormShapes(i, T) ==
    {[Stmt("node", fs, <<>>, OutCalls(c), FALSE, FALSE) EXCEPT !.label = l] :
        fs \in ChainForms(i, T) \cup AttrForms(i, T),
        c \in (IF i = 1 THEN 0..MaxOut ELSE {0}),
        l \in (IF i = 1 THEN FormLabels ELSE {NoLabel})}

RECURSIVE FormGraphsFrom(_)
FormGraphsFrom(i) ==
    IF i > MaxNodes THEN {EmptyMap}
    ELSE {g @@ (i :> s) : g \in FormGraphsFrom(i + 1), s \in FormShapes(i, (i + 1)..MaxNodes)}

FormGraphs ==
    {WithFree(g) : g \in {a \in FormGraphsFrom(1) : Reach(a, 1) = CallerIds}}

InitForms ==
    /\ heap \in FormGraphs
    /\ Idle

SpecForms == InitForms /\ [][Next]_vars

(* ------------------------------------------------------------------ *)
(* build() keeps running                                              *)
(* ------------------------------------------------------------------ *)
\* unions over any statements, cycles included, and element queries with unions
InitLive ==
    /\ heap \in Graphs("loop") \cup Graphs("plain")
    /\ Idle

\* build() is straight-line code: as long as a step is left to take, it is taken
SpecLive == InitLive /\ [][Next]_vars /\ WF_vars(Next)

(* ------------------------------------------------------------------ *)
(* Vocabulary of the properties                                       *)
(* ------------------------------------------------------------------ *)
Copy(c) == c + MaxNodes

RECURSIVE CountIn(_, _)
CountIn(n, stmts) ==
    IF stmts = <<>> THEN 0
    ELSE (IF Head(stmts) = n THEN 1 ELSE 0) + CountIn(n, Tail(stmts))

RECURSIVE SumEdges(_, _, _)
SumEdges(h, n, from) ==
    IF from = {} THEN 0
    ELSE LET m == CHOOSE k \in from : TRUE
         IN CountIn(n, StmtDependencies(h[m])) + SumEdges(h, n, from \ {m})

\* dependency edges that enter n from the statements r reaches, with multiplicity
InEdges(h, r, n) == SumEdges(h, n, Reach(h, r))

RefTypes == {"isect", "area", "pivot", "around", "use", "input", "raw", "outof"}
OutTypes == {"out", "outof"}

Owner(line) == line[1].n
IsOutLine(line) == line[1].t \in OutTypes
AssignsTo(line, x) == \E j \in 1..Len(line) : line[j].t = "assign" /\ line[j].x = x
LinesAssigning(x) == {i \in 1..Len(sequence) : AssignsTo(sequence[i], x)}
OwnLines(x) == {i \in 1..Len(sequence) : Owner(sequence[i]) = x /\ ~IsOutLine(sequence[i])}
OutLinesOf(x) == {i \in 1..Len(sequence) : Owner(sequence[i]) = x /\ IsOutLine(sequence[i])}

Building == pass \notin {"idle", "alloc"}
CallerCyclic == ~Acyclic(heap, callroot)

(* ------------------------------------------------------------------ *)
(* C1                                                                 *)
(* ------------------------------------------------------------------ *)
\* C1: when a statement the root reaches lies on a dependency cycle, build() never
\* gets past the CycleDetector traversal: it is still in that traversal or it has
\* raised CircularDependencyError, the DependencyRetriever, DependencySimplifier
\* and Compiler have not started and no line has been produced.
C1_CycleRaises ==
    (Building /\ CallerCyclic) =>
        /\ pass \in {"cycle", "failed"}
        /\ (pass = "failed" => err = "circular")
        /\ (pass = "cycle" => (HasCall \/ AtPost))
        /\ deps = EmptyMap
        /\ var_names = EmptyMap
        /\ sequence = <<>>

\* a build that raised on a cycle that does not pass through the root
C1_Witness ==
    /\ pass = "failed" /\ err = "circular"
    /\ ~OnCycle(heap, callroot)
    /\ \E n \in Reach(heap, callroot) : n \in Range(StmtDependencies(heap[n]))

(* ------------------------------------------------------------------ *)
(* C2                                                                 *)
(* ------------------------------------------------------------------ *)
\* C2: on an acyclic graph the CycleDetector traversal never raises
\* CircularDependencyError, shared dependencies included.
C2_AcyclicPasses ==
    (Building /\ ~CallerCyclic) => err # "circular"

\* the CycleDetector traversal finished on a graph with a statement entered by
\* two edges that come from two different statements
C2_Witness ==
    /\ pass = "deps"
    /\ \E n \in Reach(heap, callroot) :
          Cardinality({m \in Reach(heap, callroot) :
                          n \in Range(StmtDependencies(heap[m]))}) >= 2

(* ------------------------------------------------------------------ *)
(* C3                                                                 *)
(* ------------------------------------------------------------------ *)

\* C3: no step of build() changes a statement of the caller: filters, operands,
\* label and out() calls of every caller statement stay as they are, in builds
\* that return and in builds that raise.
C3_CallerGraphKept ==
    [][\A c \in CallerIds : heap'[c] = heap[c]]_vars

\* a finished build whose DependencySimplifier rewrote the filters of a copy
C3_Witness ==
    /\ pass \in {"done", "failed"}
    /\ err \in {"none", "unexpected"}
    /\ \E c \in Reach(heap, callroot) : heap[Copy(c)] # CopyStmt(heap[c])

(* ------------------------------------------------------------------ *)
(* C4                                                                 *)
(* ------------------------------------------------------------------ *)

\* C4: a build() of a statement gives what the first build() of that statement
\* gave, whatever other statements of the same graph were built in between.
C4_SameTextAgain ==
    (pass \in {"done", "failed"} /\ callroot \in DOMAIN built) => Outcome = built[callroot]

\* the third build repeats the first one after a build of another statement
\* whose DependencySimplifier rewrote a copy
C4_Witness ==
    /\ pass = "done" /\ nbuilds = MaxBuilds
    /\ callroot \in DOMAIN built
    /\ \E o \in DOMAIN built : o # callroot /\ o \in Reach(heap, callroot)
    /\ \E c \in Reach(heap, callroot) : heap[Copy(c)] = CopyStmt(heap[c])

(* ------------------------------------------------------------------ *)
(* C5                                                                 *)
(* ------------------------------------------------------------------ *)
SharedCallers == {c \in Reach(heap, callroot) : InEdges(heap, callroot, c) >= 2}

\* C5: in a program build() returned, a statement entered by two or more
\* dependency edges has a variable, exactly one line assigns it, every reference
\* to it carries that variable's name, and its own text stands in no other line.
C5_SharedOnce ==
    pass = "done" =>
        \A c \in SharedCallers :
            /\ Copy(c) \in DOMAIN var_names
            /\ Cardinality(LinesAssigning(Copy(c))) = 1
            /\ \A i \in 1..Len(sequence) : \A j \in 1..Len(sequence[i]) :
                  LET tok == sequence[i][j]
                  IN /\ (tok.t \in RefTypes /\ tok.x = Copy(c))
                            => tok.s = var_names[Copy(c)]
                     /\ (tok.n = Copy(c) /\ tok.t \notin OutTypes)
                            => AssignsTo(sequence[i], Copy(c))

\* a returned program in which a shared statement is referred to twice
C5_Witness ==
    /\ pass = "done"
    /\ \E c \in SharedCallers :
          \E i1, i2 \in 1..Len(sequence) : \E j1 \in 1..Len(sequence[i1]) :
             \E j2 \in 1..Len(sequence[i2]) :
                /\ <<i1, j1>> # <<i2, j2>>
                /\ sequence[i1][j1].t \in RefTypes \ OutTypes
                /\ sequence[i2][j2].t \in RefTypes \ OutTypes
                /\ sequence[i1][j1].x = Copy(c) /\ sequence[i2][j2].x = Copy(c)

(* ------------------------------------------------------------------ *)
(* C6                                                                 *)
(* ------------------------------------------------------------------ *)
Inlinable(n) ==
    /\ n \in DOMAIN deps /\ n # root
    /\ deps[n].ref_count <= 1 /\ ~deps[n].no_inline
    /\ Len(heap[n].outs) = 0

\* C6: a statement other than the root with reference count at most 1, not
\* forced into a variable and without out() calls is never given a name by the
\* VariableManager and no line assigns it.
C6_InlinableUnnamed ==
    \A n \in Ids : Inlinable(n) => (n \notin DOMAIN var_names /\ LinesAssigning(n) = {})

\* a returned program with such a statement rendered in place in another line
C6_Witness ==
    /\ pass = "done"
    /\ \E n \in Ids : /\ Inlinable(n)
                      /\ \E i \in 1..Len(sequence) : \E j \in 1..Len(sequence[i]) :
                            sequence[i][j].n = n /\ Owner(sequence[i]) # n

(* ------------------------------------------------------------------ *)
(* C7                                                                 *)
(* ------------------------------------------------------------------ *)

\* C7: in a VariableManager no two distinct registered statements hold the same
\* name, whatever their labels are, labels of the form set_<n> included.
C7_NamesUnique ==
    pass = "alloc" =>
        \A a, b \in DOMAIN var_names : a # b => var_names[a] # var_names[b]

(* ------------------------------------------------------------------ *)
(* C8                                                                 *)
(* ------------------------------------------------------------------ *)
RootLines == {i \in 1..Len(sequence) : Owner(sequence[i]) = root /\ ~IsOutLine(sequence[i])}

\* C8: in a program build() returned, a line that refers to a variable comes
\* after the line that assigns that variable, and the root's own line comes after
\* every assigning line and is followed by nothing but the root's out lines.
C8_ProducersFirst ==
    pass = "done" =>
        /\ \A i \in 1..Len(sequence) : \A j \in 1..Len(sequence[i]) :
              LET tok == sequence[i][j]
              IN tok.t \in RefTypes =>
                    \E k \in 1..(i - 1) : \E m \in 1..Len(sequence[k]) :
                       /\ sequence[k][m].t = "assign"
                       /\ sequence[k][m].x = tok.x
                       /\ sequence[k][m].s = tok.s
        /\ \E r \in 1..Len(sequence) :
              /\ RootLines = {r}
              /\ \A i \in r..Len(sequence) : ~AssignsTo(sequence[i], sequence[i][1].n)
              /\ \A i \in 1..Len(sequence) : (\E x \in Ids : AssignsTo(sequence[i], x)) => i < r
              /\ \A i \in (r + 1)..Len(sequence) :
                    /\ Len(sequence[i]) = 1
                    /\ sequence[i][1].t = "out"
                    /\ sequence[i][1].n = root

\* a returned program with two assigning lines, the second of which refers to the
\* variable of the first, and with an out line after the root's line
C8_Witness ==
    /\ pass = "done"
    /\ \E i, k \in 1..Len(sequence) :
          /\ k < i
          /\ \E x \in Ids : AssignsTo(sequence[i], x)
          /\ \E j \in 1..Len(sequence[i]) :
                sequence[i][j].t \in RefTypes /\ AssignsTo(sequence[k], sequence[i][j].x)
    /\ IsOutLine(sequence[Len(sequence)])

(* ------------------------------------------------------------------ *)
(* C9                                                                 *)
(* ------------------------------------------------------------------ *)
ExpectedOutLine(x, opts) ==
    (IF x # root THEN <<Tok("outof", x, x, get(var_names, x))>> ELSE <<>>) \o <<OutTok(x, opts)>>

\* C9: in a program build() returned, a statement the root reaches that has k >= 1
\* out() calls has exactly k out lines, directly after its own line, in the order
\* of the calls, addressed to its variable unless it is the root.
C9_OutLinesKept ==
    pass = "done" =>
        \A c \in Reach(heap, callroot) :
            Len(heap[c].outs) >= 1 =>
                /\ Cardinality(OutLinesOf(Copy(c))) = Len(heap[c].outs)
                /\ (Copy(c) # root => Copy(c) \in DOMAIN var_names)
                /\ \E p \in OwnLines(Copy(c)) :
                      \A q \in 1..Len(heap[c].outs) :
                         /\ p + q <= Len(sequence)
                         /\ sequence[p + q] = ExpectedOutLine(Copy(c), heap[c].outs[q])

(* ------------------------------------------------------------------ *)
(* C10                                                                *)
(* ------------------------------------------------------------------ *)
\* the caller statement that was constructed with the value filter `tag`
TagOwner(tag) == tag \div 10

IntersectOperands(stmt) ==
    UNION {Range(stmt.filters[i].stmts) :
              i \in {j \in 1..Len(stmt.filters) : stmt.filters[j].fk = "intersect"}}

\* Intersect operands of caller statement c that are element queries of another type
OtherTypeOperands(c) ==
    IF ~IsElements(heap[c]) THEN {}
    ELSE {x \in IntersectOperands(heap[c]) :
             IsElements(heap[x]) /\ heap[x].kind # heap[c].kind}

\* C10: the DependencySimplifier never moves the filters of an element query of
\* one type into an element query of another type; an Intersect operand of another
\* type than its owner stays in the owner's Intersect filter and, in a program
\* build() returned, has a variable.
C10_NoCrossTypeSplice ==
    Building =>
        /\ \A n \in CloneIds :
              IsElements(heap[n]) =>
                 \A i \in 1..Len(heap[n].filters) :
                    heap[n].filters[i].fk = "value" =>
                       heap[TagOwner(heap[n].filters[i].tag)].kind = heap[n].kind
        /\ \A c \in Reach(heap, callroot) : \A x \in OtherTypeOperands(c) :
              /\ Copy(x) \in IntersectOperands(heap[Copy(c)])
              /\ pass = "done" => Copy(x) \in DOMAIN var_names

\* a returned program with an Intersect operand of another type than its owner
\* that only its owner refers to, next to an operand of the owner's type that was
\* spliced
C10_Witness ==
    /\ pass = "done"
    /\ \E c \in Reach(heap, callroot) :
          /\ \E x \in OtherTypeOperands(c) :
                InEdges(heap, callroot, x) = 1 /\ Len(heap[x].outs) = 0
          /\ Len(heap[Copy(c)].filters) > Len(heap[c].filters)

(* ------------------------------------------------------------------ *)
(* C11                                                                *)
(* ------------------------------------------------------------------ *)
RelationalFilters(stmt) ==
    {j \in 1..Len(stmt.filters) : stmt.filters[j].fk # "value"}

\* r heads a chain: element queries of one type without out() calls, each holding
\* at most one relational filter, an Intersect of the one next query, and none of
\* them referenced twice
ChainFrom(h, r) ==
    /\ Cardinality(Reach(h, r)) >= 2
    /\ \A c \in Reach(h, r) :
          /\ IsElements(h[c]) /\ h[c].kind = h[r].kind
          /\ Len(h[c].outs) = 0
          /\ InEdges(h, r, c) <= 1
          /\ Cardinality(RelationalFilters(h[c])) <= 1
          /\ \A j \in RelationalFilters(h[c]) :
                h[c].filters[j].fk = "intersect" /\ Len(h[c].filters[j].stmts) = 1

\* the value filters of the chain from c on, each query's filters standing where
\* the Intersect filter that referred to it stood
RECURSIVE SplicedTags(_, _, _)
SplicedTags(h, c, j) ==
    IF j > Len(h[c].filters) THEN <<>>
    ELSE (IF h[c].filters[j].fk = "value" THEN <<h[c].filters[j].tag>>
          ELSE SplicedTags(h, h[c].filters[j].stmts[1], 1))
         \o SplicedTags(h, c, j + 1)

OwnTags(stmt) ==
    LET vals == SelectSeq(stmt.filters, LAMBDA f : f.fk = "value")
    IN [j \in 1..Len(vals) |-> vals[j].tag]

\* the value filters of the chain from c on, the innermost query's first
RECURSIVE InnerFirstTags(_, _)
InnerFirstTags(h, c) ==
    (IF RelationalFilters(h[c]) = {} THEN <<>>
     ELSE InnerFirstTags(h, h[c].filters[CHOOSE j \in RelationalFilters(h[c]) : TRUE].stmts[1]))
    \o OwnTags(h[c])

\* one line: the type, the given value filters, the end of the statement
OneLine(n, kind, tags) ==
    <<Tok("type", n, 0, kind)>> \o [j \in 1..Len(tags) |-> Tok("value", n, tags[j], "")]
    \o <<Tok("end", n, 0, ";")>>

\* C11, innermost first: a chain of element queries of one type, each referring to the
\* next through one Intersect filter, none referenced elsewhere and none with an
\* out() call, compiles to one line that holds the value filters of the chain from
\* the innermost query to the outermost, and no variable is allocated.
C11_ChainInnerFirst ==
    (pass = "done" /\ ChainFrom(heap, callroot)) =>
        /\ var_names = EmptyMap
        /\ sequence = <<OneLine(root, heap[callroot].kind, InnerFirstTags(heap, callroot))>>

\* C11, in place: such a chain always builds, to one line and without a variable;
\* the line holds every value filter of the chain once, and the filters of a query
\* stand where the Intersect filter that referred to the query stood in its owner
\* (innermost first exactly when every Intersect filter is its owner's first filter).
C11_ChainInPlace ==
    (Building /\ ChainFrom(heap, callroot)) =>
        /\ pass # "failed"
        /\ var_names = EmptyMap
        /\ pass = "done" =>
              sequence = <<OneLine(root, heap[callroot].kind, SplicedTags(heap, callroot, 1))>>

\* a chain of all MaxNodes queries has been compiled, one with the Intersect filter
\* first and one with a value filter in front of it
C11_Witness ==
    /\ pass = "done" /\ ChainFrom(heap, callroot)
    /\ Reach(heap, callroot) = CallerIds
    /\ \E c \in CallerIds : \E j \in RelationalFilters(heap[c]) : j = 1
    /\ \E c \in CallerIds : \E j \in RelationalFilters(heap[c]) : j > 1

(* ------------------------------------------------------------------ *)
(* C12                                                                *)
(* ------------------------------------------------------------------ *)
WellFormedFilter(f) ==
    /\ f.fk = "intersect" => Len(f.stmts) > 0
    /\ f.fk = "around" => ((Len(f.stmts) > 0) # f.coords)

\* no statement the root reaches has attributes that its rendering rejects
WellFormed(h, r) ==
    \A c \in Reach(h, r) :
        /\ \A j \in 1..Len(h[c].filters) : WellFormedFilter(h[c].filters[j])
        /\ h[c].kind = "is_in" => ((Len(h[c].ops) > 0) # h[c].coords)

InternalErrors == {"unexpected", "keyerror"}

\* C12: on an acyclic graph with well-formed attributes build() never raises the
\* internal error: no statement is rendered before a dependency it names is
\* registered (UnexpectedCompilationError or the KeyError of vars[...]), and no
\* statement is registered twice.
C12_NoInternalError ==
    (Building /\ Acyclic(heap, callroot) /\ WellFormed(heap, callroot))
        => err \notin InternalErrors

(* ------------------------------------------------------------------ *)
(* C13                                                                *)
(* ------------------------------------------------------------------ *)

\* C13: the statement build() is called on is never registered with the
\* VariableManager; in a returned program it has one line of its own, that line
\* assigns no variable, and its out lines are not addressed to a variable, also
\* when it has a label or out() calls.
C13_RootUnnamed ==
    Building =>
        /\ root \notin DOMAIN var_names
        /\ pass = "done" =>
              /\ Cardinality(OwnLines(root)) = 1
              /\ \A i \in 1..Len(sequence) :
                    Owner(sequence[i]) = root =>
                       /\ \A j \in 1..Len(sequence[i]) : sequence[i][j].t \notin {"assign", "outof"}
                       /\ IsOutLine(sequence[i]) => Len(sequence[i]) = 1
              /\ Cardinality(OutLinesOf(root)) = Len(heap[root].outs)

\* a returned program whose root has a label and out() calls, next to a
\* registered statement
C13_Witness ==
    /\ pass = "done"
    /\ heap[root].label # NoLabel
    /\ Len(heap[root].outs) >= 1
    /\ var_names # EmptyMap

(* ------------------------------------------------------------------ *)
(* C14                                                                *)
(* ------------------------------------------------------------------ *)

\* C14: add_statement on a statement that has a name already raises
\* UnexpectedCompilationError with that statement in it and changes nothing in
\* the VariableManager: every name and the counter stay as they were.
C14_RegisterTwiceFails ==
    [][\A n \in CallerIds :
          (Register(n) /\ n \in DOMAIN var_names) =>
              /\ err' = "unexpected"
              /\ errstmt' = n
              /\ var_names' = var_names
              /\ next_id' = next_id]_vars

\* a second registration has just failed in a VariableManager that holds two names
C14_Witness ==
    /\ pass = "alloc"
    /\ err = "unexpected"
    /\ errstmt \in DOMAIN var_names
    /\ Cardinality(DOMAIN var_names) >= 2
    /\ next_id >= 2

(* ------------------------------------------------------------------ *)
(* C15                                                                *)
(* ------------------------------------------------------------------ *)
HasEmptyIntersect(stmt) ==
    \E j \in 1..Len(stmt.filters) :
        stmt.filters[j].fk = "intersect" /\ Len(stmt.filters[j].stmts) = 0

\* C15: build() of a graph in which an element query holds an Intersect filter
\* without operands fails with the attribute error, raised when that query is
\* rendered: such a build never returns a program.
C15_EmptyIntersectFails ==
    (pass \in {"done", "failed"}
        /\ \E c \in Reach(heap, callroot) : IsElements(heap[c]) /\ HasEmptyIntersect(heap[c]))
    => (pass = "failed" /\ err = "attribute")

(* ------------------------------------------------------------------ *)
(* C16                                                                *)
(* ------------------------------------------------------------------ *)
\* an Around filter with an input set and coordinates, or with neither
BadAround(f) == f.fk = "around" /\ ((Len(f.stmts) > 0) = f.coords)

HasBadAround(stmt) == \E j \in 1..Len(stmt.filters) : BadAround(stmt.filters[j])

\* the attribute error is raised by the Compiler's post hook on a statement that
\* holds a bad Around filter, and by no other step
RaisedAtRender ==
    (err = "none" /\ err' = "attribute") =>
        (pass = "compile" /\ AtPost /\ HasBadAround(heap[Top.node]))

\* C16: a graph with an Around filter that has both an input set and coordinates,
\* or neither, goes through construction and the CycleDetector, DependencyRetriever
\* and DependencySimplifier traversals without an error; the attribute error is
\* raised when the Compiler renders the statement that holds the filter, and no
\* such build returns a program.
C16_AroundFailsAtRender ==
    /\ []((pass = "done") => \A c \in Reach(heap, callroot) : ~HasBadAround(heap[c]))
    /\ []((pass \in {"cycle", "deps", "simplify", "compile"}) => err = "none")
    /\ [][RaisedAtRender]_vars

\* a build failed on an Around filter with both attributes that a statement other
\* than the root holds, after the three analysis traversals had finished
C16_Witness ==
    /\ pass = "failed" /\ err = "attribute"
    /\ deps # EmptyMap
    /\ ~HasBadAround(heap[callroot])
    /\ \E c \in Reach(heap, callroot) : \E j \in 1..Len(heap[c].filters) :
          heap[c].filters[j].fk = "around"
          /\ Len(heap[c].filters[j].stmts) > 0 /\ heap[c].filters[j].coords

(* ------------------------------------------------------------------ *)
(* C17                                                                *)
(* ------------------------------------------------------------------ *)
UnnamedDependency(n) == \E i \in 1..Len(heap[n].ops) : heap[n].ops[i] \notin DOMAIN var_names

NoPlaceForName(n) == n \in DOMAIN var_names /\ ~heap[n].outph

\* C17: rendering a RawStatement raises UnexpectedCompilationError when one of the
\* statements bound to its placeholders has no name at that moment, and also when
\* the statement is to be stored in a variable and its text has no {:out_var}.
C17_RawNeedsNames ==
    [][\A n \in CallerIds :
          (Render(n) /\ heap[n].kind = "raw" /\ (UnnamedDependency(n) \/ NoPlaceForName(n)))
              => err' = "unexpected"]_vars

\* a RawStatement whose dependencies all have names has just failed to render,
\* because it has a name itself and no {:out_var}
C17_Witness ==
    /\ pass = "alloc" /\ err = "unexpected" /\ errstmt = NULL
    /\ \E n \in CallerIds :
          /\ heap[n].kind = "raw" /\ Len(heap[n].ops) >= 1
          /\ ~UnnamedDependency(n) /\ NoPlaceForName(n)

(* ------------------------------------------------------------------ *)
(* C18                                                                *)
(* ------------------------------------------------------------------ *)
Simplified == pass \in {"compile", "done"}

\* the Intersect operands of caller statement c that its copy no longer refers to
SplicedOperands(c) ==
    {x \in IntersectOperands(heap[c]) : Copy(x) \notin IntersectOperands(heap[Copy(c)])}

\* C18: the DependencySimplifier splices an Intersect operand into its owner only
\* when the operand can be inlined (not forced into a variable, reference count at
\* most 1, no out() calls) and is an element query of the owner's type; every
\* other operand is still referred to by an Intersect filter of the owner.
C18_SpliceOnlyInlinable ==
    Simplified =>
        \A c \in Reach(heap, callroot) :
            IsElements(heap[c]) =>
                \A x \in SplicedOperands(c) :
                    /\ can_inline(deps, heap, Copy(x))
                    /\ IsElements(heap[x]) /\ heap[x].kind = heap[c].kind

(* ------------------------------------------------------------------ *)
(* C19                                                                *)
(* ------------------------------------------------------------------ *)
\* some line holds text that statement n itself rendered
Rendered(n) ==
    \E i \in 1..Len(sequence) : \E j \in 1..Len(sequence[i]) :
        sequence[i][j].n = n /\ sequence[i][j].t \notin OutTypes

\* C19: in a program build() returned, every statement other than the root that
\* the root still reaches after the DependencySimplifier is rendered, in a line of
\* its own or in place inside the line of the statement that refers to it,
\* whatever the class of that statement.
C19_ReachableRendered ==
    pass = "done" => \A n \in Reach(heap, root) \ {root} : Rendered(n)

(* ------------------------------------------------------------------ *)
(* C20                                                                *)
(* ------------------------------------------------------------------ *)
Analyzed == pass \in {"simplify", "compile", "done"}

\* the caller statements that a RawStatement depends on or that a relational
\* filter (Intersect, Area, Pivot, Around) of an element query refers to
ForcedTargets(h, r) ==
    UNION {IF h[c].kind = "raw" THEN Range(h[c].ops)
           ELSE IF IsElements(h[c])
           THEN UNION {Range(FilterDependencies(h[c].filters[j])) : j \in 1..Len(h[c].filters)}
           ELSE {} : c \in Reach(h, r)}

\* C20: after the DependencyRetriever traversal of an acyclic graph no_inline is
\* true for every statement that a RawStatement depends on or that a relational
\* filter refers to, in whatever order the traversal found it.
C20_ForcedFlagSet ==
    Analyzed => \A x \in ForcedTargets(heap, callroot) : deps[Copy(x)].no_inline

(* ------------------------------------------------------------------ *)
(* C21                                                                *)
(* ------------------------------------------------------------------ *)
\* C21: after the DependencyRetriever traversal of an acyclic graph the map holds
\* exactly the statements the root reaches; the ref_count of every such statement
\* other than the root is the number of dependency edges, with multiplicity, that
\* enter it from statements the root reaches, and the root's ref_count is 1,
\* whether the entry was first made by the seeding loops (count 0) or by an
\* ordinary arrival.
C21_RefCountIsInEdges ==
    Analyzed =>
        /\ DOMAIN deps = {Copy(c) : c \in Reach(heap, callroot)}
        /\ \A c \in Reach(heap, callroot) :
              deps[Copy(c)].ref_count =
                  IF c = callroot THEN 1 ELSE InEdges(heap, callroot, c)

\* the traversal has finished on a graph with a statement that was seeded by a
\* relational filter before the walk arrived at it and that three edges from two
\* statements enter
C21_Witness ==
    /\ pass = "simplify"
    /\ \E c \in Reach(heap, callroot) :
          /\ deps[Copy(c)].no_inline
          /\ deps[Copy(c)].ref_count = 3
          /\ Cardinality({m \in Reach(heap, callroot) :
                             c \in Range(StmtDependencies(heap[m]))}) = 2

(* ------------------------------------------------------------------ *)
(* C22                                                                *)
(* ------------------------------------------------------------------ *)
\* the statements n reaches in the graph the running traversal was started on:
\* the Compiler walks the simplified graph, the other visitors the fresh copy
WalkedFrom(n) ==
    IF pass \in {"compile", "done"} THEN Reach(heap, n)
    ELSE {Copy(c) : c \in Reach(heap, n - MaxNodes)}

PostsBefore(i) == {accept_post[k] : k \in 1..(i - 1)}

\* C22: in every traversal of an acyclic graph the post hook is called at most
\* once on a statement and only on statements the root reaches, it is called on a
\* statement only after it was called on every other statement that statement
\* reaches, and when the traversal ends it has been called on every statement the
\* root reaches.
C22_PostOnceInPostOrder ==
    (Building /\ ~CallerCyclic) =>
        /\ \A i, k \in 1..Len(accept_post) : accept_post[i] = accept_post[k] => i = k
        /\ \A i \in 1..Len(accept_post) :
              /\ accept_post[i] \in WalkedFrom(root)
              /\ (WalkedFrom(accept_post[i]) \ {accept_post[i]}) \subseteq PostsBefore(i)
        /\ (AtEnd \/ pass = "done") => Range(accept_post) = WalkedFrom(root)

\* the DependencySimplifier traversal has ended on a graph of MaxNodes statements
\* in which two statements refer to a third
C22_Witness ==
    /\ pass = "simplify" /\ AtEnd
    /\ Len(accept_post) = MaxNodes
    /\ \E c \in Reach(heap, callroot) :
          Cardinality({m \in Reach(heap, callroot) :
                          c \in Range(StmtDependencies(heap[m]))}) = 2

(* ------------------------------------------------------------------ *)
(* C23                                                                *)
(* ------------------------------------------------------------------ *)
Traversing == pass \in {"cycle", "deps", "simplify", "compile"}

\* the dependencies traverse() read from statement m when it started on them
WalkedDeps(m) ==
    IF pass = "simplify" THEN Shift(StmtDependencies(heap[m - MaxNodes]))
    ELSE StmtDependencies(heap[m])

OnStack == {stack[k].node : k \in 1..Len(stack)} \ {NULL}

\* traverse(dep) calls made so far by the running calls of traverse(), the call on
\* the root included
RECURSIVE CallsFromStack(_, _)
CallsFromStack(n, k) ==
    IF k = 0 THEN 0
    ELSE CountIn(n, SubSeq(stack[k].deps, 1, stack[k].i - 1)) + CallsFromStack(n, k - 1)

\* traverse(dep) calls made by the calls of traverse() that have returned
RECURSIVE CallsFromDone(_, _)
CallsFromDone(n, from) ==
    IF from = {} THEN 0
    ELSE LET m == CHOOSE k \in from : TRUE
         IN CountIn(n, WalkedDeps(m)) + CallsFromDone(n, from \ {m})

PreCalls(n) == IF n \in DOMAIN accept_pre THEN accept_pre[n] ELSE 0

\* an arrival at a statement that is in `visited` calls its pre hook and nothing
\* else: no dependency is walked, no post hook is called
ShortCircuit ==
    (Traversing /\ HasCall /\ Callee \in visited) =>
        /\ accept_pre' = [accept_pre EXCEPT ![Callee] = @ + 1]
        /\ accept_post' = accept_post
        /\ visited' = visited
        /\ Len(stack') <= Len(stack)

\* C23: in a traversal the pre hook has been called on a statement once for the
\* call on the root and once for every dependency edge walked so far, edges to
\* statements that are fully processed included, so that at the end its count is
\* the number of edges that enter the statement from statements the root reaches
\* (plus one for the root); an arrival at a visited statement calls the pre hook
\* but walks no dependency and calls no post hook.
C23_PrePerEdge ==
    /\ [](Traversing =>
            /\ \A n \in Ids :
                  PreCalls(n) = CallsFromStack(n, Len(stack))
                                + CallsFromDone(n, visited \ OnStack)
            /\ AtEnd => \A n \in WalkedFrom(root) :
                  PreCalls(n) = (IF n = root THEN 1 ELSE 0)
                                + CallsFromDone(n, WalkedFrom(root)))
    /\ [][ShortCircuit]_vars

\* the Compiler traversal has ended with three pre hook calls and one post hook
\* call on one statement
C23_Witness ==
    /\ pass = "compile" /\ AtEnd
    /\ \E n \in Ids : PreCalls(n) = 3 /\ CountIn(n, accept_post) = 1

(* ------------------------------------------------------------------ *)
(* C24                                                                *)
(* ------------------------------------------------------------------ *)
\* C24: once the DependencySimplifier traversal has finished, every statement
\* other than the root that the root still reaches is entered, in the simplified
\* graph, by as many dependency edges (with multiplicity, from statements the root
\* reaches) as the ref_count the DependencyRetriever gave it, so that can_inline
\* is evaluated on counts that match the graph the Compiler walks.
C24_CountsMatchSimplified ==
    Simplified =>
        \A n \in Reach(heap, root) \ {root} :
            InEdges(heap, root, n) = deps[n].ref_count

\* the Compiler runs on a graph in which a spliced statement handed its own
\* Intersect operand, one with two references, over to its owner
C24_Witness ==
    /\ pass = "compile"
    /\ \E c \in Reach(heap, callroot) :
          /\ Copy(c) \notin Reach(heap, root)
          /\ \E x \in IntersectOperands(heap[c]) :
                /\ Copy(x) \in Reach(heap, root)
                /\ deps[Copy(x)].ref_count = 2
                /\ \E o \in Reach(heap, root) \ {Copy(c)} :
                      /\ Copy(x) \in IntersectOperands(heap[o])
                      /\ x \notin IntersectOperands(heap[o - MaxNodes])

(* ------------------------------------------------------------------ *)
(* C25                                                                *)
(* ------------------------------------------------------------------ *)
\* the name a registration of n is to give
NameDue(n) ==
    IF heap[n].label # NoLabel /\ \A m \in DOMAIN var_names : var_names[m] # heap[n].label
    THEN heap[n].label
    ELSE SetName(Cardinality(DOMAIN var_names))

\* C25: add_statement on a statement without a name succeeds; it gives the
\* statement its label when it has one and no registered statement holds that
\* name, and set_<c> otherwise, c being the number of registrations that succeeded
\* before; every other name stays, and _next_id, which always equals that number,
\* grows by one whichever name was chosen.
C25_RegisterNames ==
    /\ [](pass = "alloc" => next_id = Cardinality(DOMAIN var_names))
    /\ [][\A n \in CallerIds :
            (Register(n) /\ n \notin DOMAIN var_names) =>
                /\ err' = "none"
                /\ DOMAIN var_names' = DOMAIN var_names \cup {n}
                /\ var_names'[n] = NameDue(n)
                /\ \A m \in DOMAIN var_names : var_names'[m] = var_names[m]
                /\ next_id' = next_id + 1]_vars

\* three registrations succeeded: one statement holds its label, another with the
\* same label holds set_1, and a statement without a label holds set_2
C25_Witness ==
    /\ pass = "alloc" /\ next_id = 3
    /\ \E a, b, c \in DOMAIN var_names :
          /\ heap[a].label # NoLabel /\ var_names[a] = heap[a].label
          /\ heap[b].label = heap[a].label /\ var_names[b] = SetName(1)
          /\ heap[c].label = NoLabel /\ var_names[c] = SetName(2)

(* ------------------------------------------------------------------ *)
(* C26                                                                *)
(* ------------------------------------------------------------------ *)
IsCombination(rec) == rec.kind \in {"union", "difference"}

\* what stands for operand op in the text of n
OperandText(n, op) ==
    IF op \in DOMAIN var_names THEN <<Tok("use", n, op, var_names[op])>>
    ELSE StmtCompile(heap, var_names, op).text

\* the line of Union or Difference n, operand by operand
CombinationLine(n) ==
    LET ops == heap[n].ops
        parts == [i \in 1..Len(ops) |-> OperandText(n, ops[i])]
    IN <<Tok("open", n, 0, "(")>>
       \o (IF heap[n].kind = "difference"
           THEN parts[1] \o <<Tok("minus", n, 0, "-")>> \o parts[2]
           ELSE Flatten(parts))
       \o <<Tok("close", n, 0, ")")>>
       \o Ending(n, get(var_names, n))

\* operand op stands in some line as a reference to its variable
UsedByName(op) ==
    \E i \in 1..Len(sequence) : \E j \in 1..Len(sequence[i]) :
        sequence[i][j].t = "use" /\ sequence[i][j].x = op

\* the text of op stands inside the line of another statement
RenderedInPlace(op) ==
    \E i \in 1..Len(sequence) : \E j \in 1..Len(sequence[i]) :
        /\ sequence[i][j].n = op /\ sequence[i][j].t \notin OutTypes
        /\ Owner(sequence[i]) # op

\* C26: in a program build() returned, the line of a rendered Union or Difference holds
\* its operands in declaration order (the minuend before the subtrahend), each as
\* a reference to its variable when the operand is registered and as the
\* operand's own text otherwise; no operand is rendered in both ways.
C26_OperandsInOrder ==
    pass = "done" =>
        \A n \in Reach(heap, root) :
            (IsCombination(heap[n]) /\ Rendered(n)) =>
                /\ \A i \in OwnLines(n) : sequence[i] = CombinationLine(n)
                /\ (n = root \/ n \in DOMAIN var_names) => Cardinality(OwnLines(n)) = 1
                /\ \A k \in 1..Len(heap[n].ops) :
                      LET op == heap[n].ops[k]
                      IN /\ UsedByName(op) <=> op \in DOMAIN var_names
                         /\ ~(UsedByName(op) /\ RenderedInPlace(op))

\* a returned program whose root is a combination of two different operands, the
\* first rendered in place and the second by its variable
C26_Witness ==
    /\ pass = "done"
    /\ IsCombination(heap[root])
    /\ Len(heap[root].ops) = 2
    /\ RenderedInPlace(heap[root].ops[1])
    /\ UsedByName(heap[root].ops[2])

(* ------------------------------------------------------------------ *)
(* C27                                                                *)
(* ------------------------------------------------------------------ *)
Open == {n \in DOMAIN visiting : visiting[n]}
Closed == {n \in DOMAIN visiting : ~visiting[n]}

\* a closed statement stays closed while the detector runs
ClosedForGood ==
    \A n \in Ids :
        (pass = "cycle" /\ n \in Closed) => (n \in DOMAIN visiting' /\ ~visiting'[n])

\* C27: at every step of the CycleDetector traversal, on graphs with and without
\* cycles, the statements marked open (True) are exactly the statements of the
\* running calls of traverse(), from the root down to the statement in hand; the
\* statements whose post hook was called are exactly the ones marked closed
\* (False), and a closed statement is never marked open again.
C27_OpenIsActivePath ==
    /\ [](pass = "cycle" => (Open = OnStack /\ Closed = Range(accept_post)))
    /\ [][ClosedForGood]_vars

\* the detector has two statements open and is about to arrive at a closed one
C27_Witness ==
    /\ pass = "cycle" /\ HasCall
    /\ Cardinality(Open) = 2
    /\ Callee \in Closed

(* ------------------------------------------------------------------ *)
(* C28                                                                *)
(* ------------------------------------------------------------------ *)
Finished == pass \in {"done", "failed"}

RECURSIVE TotalPreCalls(_)
TotalPreCalls(from) ==
    IF from = {} THEN 0
    ELSE LET n == CHOOSE k \in from : TRUE
         IN PreCalls(n) + TotalPreCalls(from \ {n})

RECURSIVE TotalEdges(_)
TotalEdges(from) ==
    IF from = {} THEN 0
    ELSE LET c == CHOOSE k \in from : TRUE
         IN Len(StmtDependencies(heap[c])) + TotalEdges(from \ {c})

\* traverse() starts on the dependencies of a statement only when the statement
\* is not in `visited`
NoSecondDescent ==
    (Traversing /\ Len(stack') > Len(stack)) => (HasCall /\ Callee \notin visited)

\* C28: build() on any graph, with or without cycles, comes to an end: it returns
\* a program or raises.  No traversal starts on the dependencies of a statement it
\* has visited, so in each traversal the post hook is called at most once per
\* statement the root reaches, the pre hook at most once per dependency edge plus
\* once for the root, and the calls of traverse() are never nested deeper than
\* the number of those statements.
C28_BuildTerminates ==
    /\ <>Finished
    /\ [][NoSecondDescent]_vars
    /\ [](Building =>
            /\ Len(accept_post) <= Cardinality(Reach(heap, callroot))
            /\ TotalPreCalls(Ids) <= 1 + TotalEdges(Reach(heap, callroot))
            /\ Len(stack) <= 1 + Cardinality(Reach(heap, callroot)))

\* build() has raised on a graph with a cycle through all MaxNodes statements
C28_Witness ==
    /\ pass = "failed" /\ err = "circular"
    /\ Cardinality(DOMAIN visiting) = MaxNodes
    /\ \A c \in CallerIds : OnCycle(heap, c)

(* ------------------------------------------------------------------ *)
(* C29                                                                *)
(* ------------------------------------------------------------------ *)
\* every name given so far is still what get() returns after the step, and the
\* counter has not gone down
NamesStay ==
    /\ \A n \in DOMAIN var_names : get(var_names', n) = var_names[n]
    /\ next_id' >= next_id

\* C29: in a VariableManager a statement that was given a name keeps it: no
\* add_statement call, successful or failed, on this or on another statement, and
\* no rendering changes or removes a name, and _next_id never decreases.
C29_NamesKept ==
    [][pass = "alloc" => NamesStay]_vars

\* three statements hold names, a statement was rendered, and the last call was a
\* registration that failed
C29_Witness ==
    /\ pass = "alloc"
    /\ Cardinality(DOMAIN var_names) = 3
    /\ sequence # <<>>
    /\ err = "unexpected" /\ errstmt # NULL

\* the same during build(): the Compiler's names stay while it runs
NamesKeptInBuild ==
    [][Building => NamesStay]_vars

(* ------------------------------------------------------------------ *)
(* C30                                                                *)
(* ------------------------------------------------------------------ *)
\* operand x of an Intersect filter of caller statement c is spliced into c
Splices(c, x) ==
    /\ InEdges(heap, callroot, x) = 1
    /\ IsElements(heap[x]) /\ heap[x].kind = heap[c].kind

\* the filters the copy of caller statement c is to hold, from c's j-th filter on:
\* c's other filters in their order and, where an Intersect filter stood, the
\* filters of its spliced operands followed by one Intersect filter of the
\* operands that stay, if any stays
RECURSIVE FiltersDue(_, _)
FiltersDue(c, j) ==
    IF j > Len(heap[c].filters) THEN <<>>
    ELSE LET f == heap[c].filters[j]
             taken == SelectSeq(f.stmts, LAMBDA x : Splices(c, x))
             stay == SelectSeq(f.stmts, LAMBDA x : InEdges(heap, callroot, x) # 1)
                     \o SelectSeq(f.stmts, LAMBDA x :
                            InEdges(heap, callroot, x) = 1 /\ ~Splices(c, x))
         IN (IF f.fk # "intersect" THEN <<CopyFilter(f)>>
             ELSE Flatten([k \in 1..Len(taken) |-> FiltersDue(taken[k], 1)])
                  \o (IF stay # <<>> THEN <<Intersect(Shift(stay))>> ELSE <<>>))
            \o FiltersDue(c, j + 1)

\* C30: after the DependencySimplifier traversal an element query holds its own
\* filters other than Intersect in the order they had; the filters spliced from
\* an operand stand where the Intersect filter stood, in front of the reduced
\* Intersect filter of the operands that stay; and no statement holds an
\* Intersect filter without operands.
C30_SplicedInPlace ==
    Simplified =>
        \A c \in Reach(heap, callroot) :
            IsElements(heap[c]) =>
                /\ heap[Copy(c)].filters = FiltersDue(c, 1)
                /\ ~HasEmptyIntersect(heap[Copy(c)])

\* the Compiler runs on an element query with one Intersect filter of two operands
\* between two value filters: one operand was spliced, the other stays
C30_Witness ==
    /\ pass = "compile"
    /\ \E c \in Reach(heap, callroot) :
          /\ IsElements(heap[c])
          /\ Cardinality(SplicedOperands(c)) = 1
          /\ Cardinality(IntersectOperands(heap[Copy(c)])) = 1
          /\ Len(heap[Copy(c)].filters) = 5
          /\ heap[Copy(c)].filters[4].fk = "intersect"

====
